---- MODULE Spec2Model ----
(***************************************************************************)
(* Model of the foreign-types framework (src/src/lib.rs): the traits       *)
(* ForeignType / ForeignTypeRef, the foreign_type! macro and the two       *)
(* resource pairs of the crate documentation, Foo/FooRef and Bar/BarRef.   *)
(*                                                                         *)
(* The state is the set of owned values a client program has built, the    *)
(* borrowed references that are live, and the trace of calls made to the   *)
(* foreign release functions.  One action per operation of the generated   *)
(* API.  The unsafe constructors carry no guard, as the code checks        *)
(* nothing; the safe operations carry the guard that their signature       *)
(* (&self / &mut self and the elided lifetime of the result) imposes on    *)
(* every caller.                                                           *)
(***************************************************************************)
EXTENDS Integers, Sequences, FiniteSets

\* Bounds of the model.
MaxOwned == 2       \* owned values built during one run
MaxViews == 2       \* borrowed references live at the same time

\* *mut $ctype: the raw handles.  The framework stores, copies and compares
\* them and never looks inside: the null pointer and a pointer to a foreign
\* record.
Handles == {"null", "p1"}
OwnedIds == 1 .. MaxOwned
ViewIds == 1 .. MaxViews

\* The two pairs generated in the crate documentation.
Kinds == {"Foo", "Bar"}

VARIABLES
    owned,      \* owned[o]: the $owned value number o (its state and its field .0)
    assumed,    \* assumed[o]: the pointer that was passed to from_ptr to build o
    views,      \* views[v]: the live borrowed reference in slot v
    released,   \* the calls made to the release functions, in order
    fault       \* set when an operation did not complete

vars == <<owned, assumed, views, released, fault>>

IsNull(ptr) == ptr = "null"

NoOwned == [st |-> "none", kind |-> "Foo", ptr |-> "null"]
NoView == [st |-> "none", kind |-> "Foo", addr |-> "null", mutable |-> FALSE,
           origin |-> 0, parent |-> 0, src |-> "null", via |-> "null"]
NoFault == [op |-> "none", arg |-> "null"]

\* drop: $drop of the two foreign_type! invocations.
DropFnShared(kind) == "FOO_free"

DropFn(kind) == IF kind = "Foo" THEN "FOO_free" ELSE "BAR_free"

\* $owned(ptr): the owned value is the pointer, wrapped.
Owned(kind, ptr) == [st |-> "live", kind |-> kind, ptr |-> ptr]

\* &*(ptr as *mut _): a shared reference whose address is the pointer.
RefFromPtr(ptr) == [addr |-> ptr, mutable |-> FALSE]

\* &mut *(ptr as *mut _): an exclusive reference whose address is the pointer.
RefFromPtrMut(ptr) == [addr |-> ptr, mutable |-> TRUE]

\* self as *const _ as *mut _: the address of the reference.
as_ptr_of_local(self) == "stack"

as_ptr(self) == self.addr

\* Reborrowing a null pointer as a reference is undefined behaviour.  The
\* builds differ: the reference is made with address 0, or the null check
\* that a debug build inserts at the reborrow aborts the process.
RefOutcomes(ptr) == IF IsNull(ptr) THEN {"ref", "abort"} ELSE {"ref"}

Live(v) == views[v].st = "live"

\* The slot a new owned value / a new reference takes.
FreeOwned == {o \in OwnedIds : owned[o].st = "none"}
FreeViews == {v \in ViewIds : ~Live(v)}
NextOwned == CHOOSE o \in FreeOwned : \A p \in FreeOwned : o <= p
NextView == CHOOSE v \in FreeViews : \A w \in FreeViews : v <= w

Init ==
    /\ owned = [o \in OwnedIds |-> NoOwned]
    /\ assumed = [o \in OwnedIds |-> "null"]
    /\ views = [v \in ViewIds |-> NoView]
    /\ released = <<>>
    /\ fault = NoFault

Running == fault = NoFault

\* unsafe fn from_ptr(ptr: *mut $ctype) -> $owned { $owned(ptr) }
OwnedFromPtrReleasing(kind, ptr) ==
    /\ Running
    /\ FreeOwned # {}
    /\ owned' = [owned EXCEPT ![NextOwned] = Owned(kind, ptr)]
    /\ assumed' = [assumed EXCEPT ![NextOwned] = ptr]
    /\ released' = Append(released, [fn |-> DropFn(kind), arg |-> ptr, by |-> 0])
    /\ UNCHANGED <<views, fault>>

OwnedFromPtr(kind, ptr) ==
    /\ Running
    /\ FreeOwned # {}
    /\ owned' = [owned EXCEPT ![NextOwned] = Owned(kind, ptr)]
    /\ assumed' = [assumed EXCEPT ![NextOwned] = ptr]
    /\ UNCHANGED <<views, released, fault>>

\* The calls that the body of drop makes: unsafe { $drop(self.0) }
DropBodyNone(self) == <<>>

DropBodyTwice(self) ==
    <<[fn |-> DropFn(self.kind), arg |-> self.ptr],
      [fn |-> DropFn(self.kind), arg |-> self.ptr]>>

DropBodyNullChecked(self) ==
    IF IsNull(self.ptr) THEN <<>>
    ELSE <<[fn |-> DropFn(self.kind), arg |-> self.ptr]>>

DropBody(self) == <<[fn |-> DropFn(self.kind), arg |-> self.ptr]>>

\* The trace entries of the calls that the drop of owned value o makes.
CallsBy(o, calls) ==
    [i \in 1 .. Len(calls) |-> [fn |-> calls[i].fn, arg |-> calls[i].arg, by |-> o]]

\* The references whose lifetime is tied to owned value o.
BorrowsOf(o) == {v \in ViewIds : Live(v) /\ views[v].origin = o}

\* The references obtained from reference v (BarRef::foo, BarRef::foo_mut).
ChildrenOf(v) == {w \in ViewIds : Live(w) /\ views[w].parent = v}

\* fn deref(&self): self may be borrowed shared while no &mut borrow of it lives.
CanBorrowAlways(o) == TRUE

CanBorrowShared(o) == \A v \in BorrowsOf(o) : ~views[v].mutable

\* fn deref_mut(&mut self), fn drop(&mut self): no other borrow of self lives.
CanBorrowMutAsShared(o) == \A v \in BorrowsOf(o) : ~views[v].mutable

CanBorrowMut(o) == BorrowsOf(o) = {}

\* fn deref(&self) -> &$borrowed: the result lives no longer than the borrow
\* of self (lifetime elision), and is the reference made by from_ptr[_mut].
Borrow(o, ref) ==
    [st |-> "live", kind |-> owned[o].kind, addr |-> ref.addr,
     mutable |-> ref.mutable, origin |-> o, parent |-> 0, src |-> owned[o].ptr,
     via |-> "null"]

\* unsafe fn from_ptr<'a>(ptr) -> &'a Self: the caller chooses the lifetime.
RawView(kind, ref, ptr) ==
    [st |-> "live", kind |-> kind, addr |-> ref.addr, mutable |-> ref.mutable,
     origin |-> 0, parent |-> 0, src |-> ptr, via |-> "null"]

\* fn foo(&self) -> &FooRef: a FooRef that lives no longer than the BarRef.
FooView(v, ref, ptr) ==
    [st |-> "live", kind |-> "Foo", addr |-> ref.addr, mutable |-> ref.mutable,
     origin |-> views[v].origin, parent |-> v, src |-> ptr,
     via |-> as_ptr(views[v])]

\* An operation that reborrows ptr: it yields the reference, or does not
\* complete when ptr is null and the build checks the reborrow.  The abort
\* ends the process and every reference with it; no destructor runs.
Reborrow(op, ptr, view) ==
    \E out \in RefOutcomes(ptr) :
        IF out = "abort"
        THEN /\ fault' = [op |-> op, arg |-> ptr]
             /\ views' = [v \in ViewIds |-> NoView]
        ELSE /\ views' = [views EXCEPT ![NextView] = view]
             /\ UNCHANGED fault

\* impl Drop for $owned
Drop(o) ==
    /\ Running
    /\ owned[o].st = "live"
    /\ CanBorrowMut(o)
    /\ released' = released \o CallsBy(o, DropBody(owned[o]))
    /\ owned' = [owned EXCEPT ![o].st = "dropped"]
    /\ UNCHANGED <<assumed, views, fault>>

\* impl Deref for $owned
Deref(o) ==
    /\ Running
    /\ owned[o].st = "live"
    /\ CanBorrowShared(o)
    /\ FreeViews # {}
    /\ Reborrow("deref", owned[o].ptr, Borrow(o, RefFromPtr(owned[o].ptr)))
    /\ UNCHANGED <<owned, assumed, released>>

\* What deref_mut leaves in self: it writes nothing.
DerefMutSelfTaken(self) == [self EXCEPT !.ptr = "null"]

DerefMutSelf(self) == self

\* impl DerefMut for $owned
DerefMut(o) ==
    /\ Running
    /\ owned[o].st = "live"
    /\ CanBorrowMut(o)
    /\ FreeViews # {}
    /\ Reborrow("deref_mut", owned[o].ptr, Borrow(o, RefFromPtrMut(owned[o].ptr)))
    /\ owned' = [owned EXCEPT ![o] = DerefMutSelf(owned[o])]
    /\ UNCHANGED <<assumed, released>>

\* ForeignTypeRef::from_ptr, called on a raw pointer by the client.
FromPtr(kind, ptr) ==
    /\ Running
    /\ FreeViews # {}
    /\ Reborrow("from_ptr", ptr, RawView(kind, RefFromPtr(ptr), ptr))
    /\ UNCHANGED <<owned, assumed, released>>

\* ForeignTypeRef::from_ptr_mut, called on a raw pointer by the client.
FromPtrMut(kind, ptr) ==
    /\ Running
    /\ FreeViews # {}
    /\ Reborrow("from_ptr_mut", ptr, RawView(kind, RefFromPtrMut(ptr), ptr))
    /\ UNCHANGED <<owned, assumed, released>>

\* BarRef::foo(&self): FooRef::from_ptr(BAR_get_foo(self.as_ptr())).  The
\* foreign accessor BAR_get_foo is called on self.as_ptr() (the field via of
\* the new reference) and returns some pointer q.
Foo(v, q) ==
    /\ Running
    /\ Live(v)
    /\ views[v].kind = "Bar"
    /\ \A w \in ChildrenOf(v) : ~views[w].mutable
    /\ FreeViews # {}
    /\ Reborrow("foo", q, FooView(v, RefFromPtr(q), q))
    /\ UNCHANGED <<owned, assumed, released>>

\* BarRef::foo_mut(&mut self): FooRef::from_ptr_mut(BAR_get_foo(self.as_ptr())).
FooMut(v, q) ==
    /\ Running
    /\ Live(v)
    /\ views[v].kind = "Bar"
    /\ views[v].mutable
    /\ ChildrenOf(v) = {}
    /\ FreeViews # {}
    /\ Reborrow("foo_mut", q, FooView(v, RefFromPtrMut(q), q))
    /\ UNCHANGED <<owned, assumed, released>>

\* The end of the scope of a reference; $borrowed has no Drop.
EndViewReleasing(v) ==
    /\ Running
    /\ Live(v)
    /\ ChildrenOf(v) = {}
    /\ views' = [views EXCEPT ![v] = NoView]
    /\ released' = Append(released, [fn |-> DropFn(views[v].kind),
                                     arg |-> as_ptr(views[v]), by |-> 0])
    /\ UNCHANGED <<owned, assumed, fault>>

EndView(v) ==
    /\ Running
    /\ Live(v)
    /\ ChildrenOf(v) = {}
    /\ views' = [views EXCEPT ![v] = NoView]
    /\ UNCHANGED <<owned, assumed, released, fault>>

Next ==
    \/ \E k \in Kinds, h \in Handles : OwnedFromPtr(k, h)
    \/ \E o \in OwnedIds : Drop(o)
    \/ \E o \in OwnedIds : Deref(o)
    \/ \E o \in OwnedIds : DerefMut(o)
    \/ \E k \in Kinds, h \in Handles : FromPtr(k, h)
    \/ \E k \in Kinds, h \in Handles : FromPtrMut(k, h)
    \/ \E v \in ViewIds, q \in Handles : Foo(v, q)
    \/ \E v \in ViewIds, q \in Handles : FooMut(v, q)
    \/ \E v \in ViewIds : EndView(v)

Spec == Init /\ [][Next]_vars

(***************************************************************************)
(* Helpers of the properties.                                              *)
(***************************************************************************)
\* The calls of the trace made by the drop of owned value o.
ReleasesBy(o) == {i \in DOMAIN released : released[i].by = o}

\* The calls of the trace that release handle h with the release function
\* of pair kind.
ReleasesOf(kind, h) ==
    {i \in DOMAIN released :
        /\ released[i].arg = h
        /\ released[i].fn = (IF kind = "Foo" THEN "FOO_free" ELSE "BAR_free")}

\* The owned values of pair kind built from handle h.
BuiltFrom(kind, h) ==
    {o \in OwnedIds : owned[o].st # "none" /\ owned[o].kind = kind /\ assumed[o] = h}

\* The references obtained from owned value o by deref or deref_mut.
DerefsOf(o) == {v \in BorrowsOf(o) : views[v].parent = 0}

LiveViews == {v \in ViewIds : Live(v)}

(***************************************************************************)
(* C1.  For every owned value the release operation is invoked exactly     *)
(* once: no call is made for it while it is not yet dropped, and exactly   *)
(* one call has been made for it in every state after its drop.            *)
(***************************************************************************)
C1_ReleasedExactlyOnce ==
    \A o \in OwnedIds :
        /\ owned[o].st \in {"none", "live"} => Cardinality(ReleasesBy(o)) = 0
        /\ owned[o].st = "dropped" => Cardinality(ReleasesBy(o)) = 1

\* One owned value was borrowed and dropped (the slot of its reference is
\* free again), and another one is still live and borrowed.
C1_Witness ==
    \E o, p \in OwnedIds :
        /\ owned[o].st = "dropped"
        /\ owned[p].st = "live"
        /\ BorrowsOf(p) # {}
        /\ Len(released) = 1

(***************************************************************************)
(* C2.  Round trip: the pointer recovered by as_ptr from a reference is    *)
(* the pointer the reference was made from, for from_ptr and from_ptr_mut; *)
(* through deref / deref_mut it is the pointer the owned value was built   *)
(* from; and a method of the borrowed type called through the owned value  *)
(* (BarRef::foo, BarRef::foo_mut) passes that pointer to the foreign call. *)
(***************************************************************************)
C2_RoundTrip ==
    \A v \in LiveViews :
        /\ as_ptr(views[v]) = views[v].src
        /\ (views[v].origin # 0 /\ views[v].parent = 0)
              => as_ptr(views[v]) = assumed[views[v].origin]
        /\ views[v].parent # 0
              => /\ views[v].via = views[views[v].parent].src
                 /\ views[views[v].parent].origin # 0
                      => views[v].via = assumed[views[views[v].parent].origin]

\* An owned Bar built from p1, borrowed exclusively, and BarRef::foo_mut
\* called through it.
C2_Witness ==
    \E v, w \in LiveViews :
        /\ views[v].origin # 0
        /\ views[v].parent = 0
        /\ views[v].mutable
        /\ assumed[views[v].origin] = "p1"
        /\ views[w].parent = v
        /\ views[w].via = "p1"

(***************************************************************************)
(* C3, as stated.  In no reachable state is there a live reference to a    *)
(* handle that has already been released (stated for the non-null handles, *)
(* on which every operation is defined).                                   *)
(***************************************************************************)
C3_NoViewOfReleasedHandle ==
    \A v \in LiveViews :
        IsNull(views[v].addr) \/ ~\E i \in DOMAIN released :
            /\ released[i].arg = views[v].addr
            /\ released[i].fn = DropFn(views[v].kind)

(***************************************************************************)
(* C3, amended.  The release made by the drop of an owned value happens    *)
(* after every reference borrowed from that owned value has ended: a live  *)
(* reference borrowed from an owned value (by deref, deref_mut, or an      *)
(* accessor called on such a reference) has a live owner for which no      *)
(* release call has been made.                                             *)
(***************************************************************************)
C3_ReleaseAfterBorrows ==
    \A v \in LiveViews :
        views[v].origin # 0
            => /\ owned[views[v].origin].st = "live"
               /\ ReleasesBy(views[v].origin) = {}

\* An owned value has been released while an exclusive borrow of another
\* owned value of the same handle is live.
C3_Witness ==
    \E o, p \in OwnedIds : \E v \in LiveViews :
        /\ owned[o].st = "dropped"
        /\ ReleasesBy(o) # {}
        /\ views[v].origin = p
        /\ views[v].mutable
        /\ owned[p].kind = owned[o].kind
        /\ owned[p].ptr = owned[o].ptr

(***************************************************************************)
(* C4.  Borrowed references never run the release function: a step that   *)
(* creates a reference (deref, deref_mut, from_ptr, from_ptr_mut, foo,     *)
(* foo_mut) or ends one leaves the trace of release calls unchanged.       *)
(***************************************************************************)
C4_ViewsNeverRelease == [][views' # views => released' = released]_vars

\* A reference has been created and has ended (slot 1 is free again below a
\* live reference), an owned value is borrowed, and nothing was released.
C4_Witness ==
    /\ ~Live(1)
    /\ Live(2)
    /\ views[2].origin # 0
    /\ owned[views[2].origin].ptr = "p1"
    /\ released = <<>>

(***************************************************************************)
(* C5, as stated.  For each handle: either no live exclusive reference, or *)
(* exactly one exclusive reference and no other live reference to it       *)
(* (stated for the non-null handles, on which every operation is defined). *)
(***************************************************************************)
C5_SharedXorExclusivePerHandle ==
    \A v, w \in LiveViews :
        (v # w /\ views[v].mutable /\ ~IsNull(views[v].addr))
            => ~(views[w].kind = views[v].kind /\ views[w].addr = views[v].addr)

(***************************************************************************)
(* C5, amended.  For each owned value, among the references obtained from  *)
(* it by deref and deref_mut: either none is exclusive, or there is        *)
(* exactly one and no other; any number of shared ones may coexist, and    *)
(* each recovers the same handle.                                          *)
(***************************************************************************)
C5_SharedXorExclusivePerOwner ==
    \A o \in OwnedIds : \A v, w \in DerefsOf(o) :
        /\ (v # w) => (~views[v].mutable /\ ~views[w].mutable)
        /\ as_ptr(views[v]) = as_ptr(views[w])

\* Two shared references to one owned value coexist.
C5_Witness ==
    \E o \in OwnedIds : \E v, w \in DerefsOf(o) :
        /\ v # w
        /\ ~views[v].mutable
        /\ ~views[w].mutable
        /\ as_ptr(views[v]) = "p1"

(***************************************************************************)
(* C6.  No release coupling between the pairs: every release call made by  *)
(* the drop of a Foo is a call of FOO_free and every release call made by  *)
(* the drop of a Bar is a call of BAR_free, also when both hold the same   *)
(* handle value.                                                           *)
(***************************************************************************)
C6_NoReleaseCoupling ==
    \A i \in DOMAIN released :
        /\ released[i].by \in OwnedIds
        /\ owned[released[i].by].kind = "Foo" => released[i].fn = "FOO_free"
        /\ owned[released[i].by].kind = "Bar" => released[i].fn = "BAR_free"

\* A Foo and a Bar built from the same handle value have both been dropped.
C6_Witness ==
    \E o, p \in OwnedIds :
        /\ owned[o].st = "dropped" /\ owned[o].kind = "Foo"
        /\ owned[p].st = "dropped" /\ owned[p].kind = "Bar"
        /\ owned[o].ptr = owned[p].ptr
        /\ Len(released) = 2

(***************************************************************************)
(* C7.  Assume-ownership has no side effect beyond the new owned value: a  *)
(* step that builds owned value o makes no release call, and leaves every  *)
(* other owned value and every reference unchanged; the new value holds    *)
(* the given handle.                                                       *)
(***************************************************************************)
C7_AssumeOwnershipFrame ==
    [][\A o \in OwnedIds :
          (owned[o].st = "none" /\ owned'[o].st # "none")
              => /\ released' = released
                 /\ views' = views
                 /\ fault' = fault
                 /\ \A p \in OwnedIds \ {o} : owned'[p] = owned[p]
                 /\ owned'[o].st = "live"
                 /\ owned'[o].ptr = assumed'[o]]_vars

\* The second owned value was built after the first was dropped and while
\* a reference was live.
C7_Witness ==
    /\ owned[1].st = "dropped"
    /\ owned[2].st = "live"
    /\ Len(released) = 1
    /\ LiveViews # {}

C9_SingleOwnershipSingleRelease ==
    \A k \in Kinds, h \in Handles :
        /\ Cardinality(BuiltFrom(k, h)) <= 1 => Cardinality(ReleasesOf(k, h)) <= 1
        /\ Cardinality(ReleasesOf(k, h))
              = Cardinality({o \in BuiltFrom(k, h) : owned[o].st = "dropped"})

\* Two owned values built from the same handle have released it twice.
C9_Witness ==
    \E k \in Kinds :
        /\ Cardinality(BuiltFrom(k, "p1")) = 2
        /\ Cardinality(ReleasesOf(k, "p1")) = 2

(***************************************************************************)
(* C10.  The handle stored in an owned value is fixed at construction: no  *)
(* step changes it, and the argument of the release call made by its drop  *)
(* is the handle that was passed to from_ptr.                              *)
(***************************************************************************)
C10_HandleFixedAtConstruction ==
    /\ \A o \in OwnedIds : owned[o].st # "none" => owned[o].ptr = assumed[o]
    /\ \A i \in DOMAIN released :
          released[i].by \in OwnedIds => released[i].arg = assumed[released[i].by]

\* An owned value built from p1 was borrowed by deref_mut and then dropped
\* with p1 (slot 1 free again); another is exclusively borrowed.
C10_Witness ==
    \E o, p \in OwnedIds : \E v \in LiveViews :
        /\ owned[o].st = "dropped"
        /\ assumed[o] = "p1"
        /\ \E i \in ReleasesBy(o) : released[i].arg = "p1"
        /\ views[v].origin = p
        /\ views[v].mutable
        /\ owned[p].ptr = "p1"
====
